---- MODULE Spec2Model ----
(***************************************************************************)
(* AliasMap (src/libs/class.AliasMap.js): a map of values that have a name *)
(* and possibly aliases.  The container keeps a flat lookup _map from      *)
(* every name string to a value and an insertion-ordered set _nameSet of   *)
(* primary names.  One action per public method; every call runs to        *)
(* completion (the class is synchronous and single-threaded).              *)
(***************************************************************************)
EXTENDS Integers, Sequences, FiniteSets, TLC

(* ------------------------------ bounds --------------------------------- *)
\* Longest aliasArr a caller passes.
MaxAliases == 1

\* The name strings callers use, as primary names and as aliases.
Names == {"a", "b"}

(* --------------------------- JavaScript values ------------------------- *)
\* A primitive: its typeof and its printed payload.
Prim(t, s) == [type |-> t, v |-> s]
UndefP == Prim("undefined", "")
\* The fields of an object that the class reads: name and aliasArr.
NoObj == [name |-> UndefP, isArray |-> FALSE, aliasArr |-> <<>>]
\* A value: a primitive (obj = NoObj) or an object with its fields.
Undefined == [type |-> "undefined", v |-> "", obj |-> NoObj]
Str(s) == [type |-> "string", v |-> s, obj |-> NoObj]
Num(s) == [type |-> "number", v |-> s, obj |-> NoObj]
Bool(b) == [type |-> "boolean", v |-> IF b THEN "true" ELSE "false", obj |-> NoObj]
Funct(s) == [type |-> "function", v |-> s, obj |-> NoObj]
KeyObj(n, arr) ==
    [type |-> "object", v |-> "",
     obj |-> [name |-> Prim("string", n), isArray |-> TRUE,
              aliasArr |-> [i \in 1..Len(arr) |-> Prim("string", arr[i])]]]

SeqsUpTo(S, n) == UNION {[1..k -> S] : k \in 0..n}
Range(s) == {s[i] : i \in 1..Len(s)}

\* Well-formed keys: a string name and an array of strings.
ValidKeys == {KeyObj(n, arr) : n \in Names, arr \in SeqsUpTo(Names, MaxAliases)}
\* Malformed keys: undefined, a non-string name, aliasArr not an array,
\* aliasArr holding a non-string.
BadKeys ==
    { Undefined,
      [type |-> "object", v |-> "",
       obj |-> [name |-> Prim("number", "1"), isArray |-> TRUE, aliasArr |-> <<>>]],
      [type |-> "object", v |-> "",
       obj |-> [name |-> Prim("string", "a"), isArray |-> FALSE, aliasArr |-> <<>>]],
      [type |-> "object", v |-> "",
       obj |-> [name |-> Prim("string", "a"), isArray |-> TRUE,
                aliasArr |-> <<Prim("string", "b"), Prim("number", "1")>>]] }
KeyArgs == ValidKeys \cup BadKeys
\* The values callers store; an omitted value is Undefined.
DefinedValues == {Num("1"), Num("2")}
ValueArgs == DefinedValues \cup {Undefined}
NameArgs == {Str(n) : n \in Names} \cup {Num("123")}
FnArgs == {Funct("iteratorFn"), Undefined}

(* ------------------ preconditions (@makipool/mint-precon) -------------- *)
PreconDefined(x) == x.type # "undefined"
PreconString(x) == x.type = "string"
PreconArrayOf(o, t) == o.isArray /\ \A i \in 1..Len(o.aliasArr) : o.aliasArr[i].type = t
PreconFunct(x) == x.type = "function"

\* The three checks that open set and delete, in order; TRUE when all pass.
KeyChecksPass(key) ==
    /\ PreconDefined(key)
    /\ PreconString(key.obj.name)
    /\ PreconArrayOf(key.obj, "string")

KeyName(key) == key.obj.name.v
AliasSeq(key) == [i \in 1..Len(key.obj.aliasArr) |-> key.obj.aliasArr[i].v]
KeyNames(key) == {KeyName(key)} \cup Range(AliasSeq(key))

(* ----------------------- Map and Set primitives ------------------------ *)
EmptyMap == [x \in {} |-> Undefined]
MapHas(m, k) == k \in DOMAIN m
MapGet(m, k) == IF k \in DOMAIN m THEN m[k] ELSE Undefined
MapSet(m, k, val) == [x \in DOMAIN m \cup {k} |-> IF x = k THEN val ELSE m[x]]
MapDelete(m, k) == [x \in DOMAIN m \ {k} |-> m[x]]
\* A JavaScript Set iterates in insertion order: a sequence without repeats.
SetHas(s, x) == x \in Range(s)
SetAdd(s, x) == IF SetHas(s, x) THEN s ELSE Append(s, x)
SetDelete(s, x) == SelectSeq(s, LAMBDA y : y # x)

RECURSIVE SetAliases(_, _, _)
\* key.aliasArr.forEach(aliasName => _._map.set(aliasName, value))
SetAliases(m, arr, val) ==
    IF arr = <<>> THEN m
    ELSE SetAliases(MapSet(m, Head(arr), val), Tail(arr), val)

RECURSIVE DeleteAliases(_, _)
\* key.aliasArr.forEach(aliasName => _._map.delete(aliasName))
DeleteAliases(m, arr) ==
    IF arr = <<>> THEN m
    ELSE DeleteAliases(MapDelete(m, Head(arr)), Tail(arr))

(* ------------------------------- state --------------------------------- *)
VARIABLES
    _map,        \* the flat lookup: name or alias -> value
    _nameSet,    \* the ordered primary names
    last,        \* the most recent call: method, arguments, outcome
    hLastSet,    \* history: live name -> value stored by the latest set with that key.name
    hLive,       \* history: names set and not removed since by delete or clear
    hRank,       \* history: name -> rank, among the names in hLive, of the set
                 \*          call that made it live (0 when not live)
    hRemovedBy,  \* history: name not live -> what removed it last ("none": never live)
    hFollowers,  \* history: name not live -> the names that came after it in the
                 \*          order of insertion when it was last removed
    hClobbered,  \* history: live name -> a set or delete call with another key.name
                 \*          listed it in aliasArr since the latest set with that key.name
    hAlias,      \* history: name -> the latest set call that listed it as an alias
                 \*          (owner, val), whether a later set of owner left it out
                 \*          (stale) and whether a set call wrote it since (written)
    hEntry,      \* history: live name -> the aliasArr of the set call that stored it
    hBefore,     \* history: the container before the latest call, when that call was
                 \*          a set of a key none of whose names was in the lookup
    iter         \* the iterator handed out by the latest values() call

vars == <<_map, _nameSet, last, hLastSet, hLive, hRank, hRemovedBy, hFollowers, hClobbered,
          hAlias, hEntry, hBefore, iter>>

Call(op, arg, value, threw, ret, out) ==
    [op |-> op, arg |-> arg, value |-> value, threw |-> threw, ret |-> ret, out |-> out]

NoAlias == [owner |-> "", val |-> Undefined, stale |-> FALSE, written |-> FALSE]
NoBefore == [phase |-> "none", map |-> EmptyMap, nameSet |-> <<>>]
\* No values() iterator has been handed out.
NoIter == [open |-> FALSE, pos |-> 0, done |-> FALSE, snap |-> EmptyMap, pulled |-> {}]

Init ==
    /\ _map = EmptyMap
    /\ _nameSet = <<>>
    /\ last = Call("new", Undefined, Undefined, FALSE, Undefined, <<>>)
    /\ hLastSet = [n \in Names |-> Undefined]
    /\ hLive = {}
    /\ hRank = [n \in Names |-> 0]
    /\ hRemovedBy = [n \in Names |-> "none"]
    /\ hFollowers = [n \in Names |-> {}]
    /\ hClobbered = [n \in Names |-> FALSE]
    /\ hAlias = [n \in Names |-> NoAlias]
    /\ hEntry = [n \in Names |-> <<>>]
    /\ hBefore = NoBefore
    /\ iter = NoIter

Size == Len(_nameSet)

(* ------------------------------ methods -------------------------------- *)
\* set(key, value): the container after the call, and whether it threw.
SetCallLateCheck(m, ns, key, value) ==
    IF ~(PreconDefined(key) /\ PreconString(key.obj.name))
    THEN [map |-> m, nameSet |-> ns, threw |-> TRUE]
    ELSE IF ~PreconArrayOf(key.obj, "string")
    THEN [map |-> MapSet(m, KeyName(key), value),
          nameSet |-> SetAdd(ns, KeyName(key)), threw |-> TRUE]
    ELSE [map |-> SetAliases(MapSet(m, KeyName(key), value), AliasSeq(key), value),
          nameSet |-> SetAdd(ns, KeyName(key)), threw |-> FALSE]

SetCallMoveToEnd(m, ns, key, value) ==
    IF ~KeyChecksPass(key)
    THEN [map |-> m, nameSet |-> ns, threw |-> TRUE]
    ELSE [map |-> SetAliases(MapSet(m, KeyName(key), value), AliasSeq(key), value),
          nameSet |-> Append(SetDelete(ns, KeyName(key)), KeyName(key)),
          threw |-> FALSE]

SetCallNameOnly(m, ns, key, value) ==
    IF ~KeyChecksPass(key)
    THEN [map |-> m, nameSet |-> ns, threw |-> TRUE]
    ELSE [map |-> MapSet(m, KeyName(key), value),
          nameSet |-> SetAdd(ns, KeyName(key)), threw |-> FALSE]

SetCallCountAliases(m, ns, key, value) ==
    IF ~KeyChecksPass(key)
    THEN [map |-> m, nameSet |-> ns, threw |-> TRUE]
    ELSE [map |-> SetAliases(MapSet(m, KeyName(key), value), AliasSeq(key), value),
          nameSet |-> IF AliasSeq(key) = <<>> THEN SetAdd(ns, KeyName(key))
                      ELSE SetAdd(SetAdd(ns, KeyName(key)), Head(AliasSeq(key))),
          threw |-> FALSE]

SetCallClearFirst(m, ns, key, value) ==
    IF ~KeyChecksPass(key)
    THEN [map |-> m, nameSet |-> ns, threw |-> TRUE]
    ELSE [map |-> SetAliases(MapSet(EmptyMap, KeyName(key), value), AliasSeq(key), value),
          nameSet |-> SetAdd(ns, KeyName(key)), threw |-> FALSE]

\* A set that, for a name already stored, first drops every name still mapped
\* to the value that name had.
SetCallDropOld(m, ns, key, value) ==
    IF ~KeyChecksPass(key)
    THEN [map |-> m, nameSet |-> ns, threw |-> TRUE]
    ELSE LET old == {t \in DOMAIN m : SetHas(ns, KeyName(key)) /\ MapHas(m, KeyName(key))
                                        /\ m[t] = m[KeyName(key)]}
             kept == [t \in DOMAIN m \ old |-> m[t]]
         IN  [map |-> SetAliases(MapSet(kept, KeyName(key), value), AliasSeq(key), value),
              nameSet |-> SetAdd(ns, KeyName(key)), threw |-> FALSE]

SetCall(m, ns, key, value) ==
    IF ~KeyChecksPass(key)
    THEN [map |-> m, nameSet |-> ns, threw |-> TRUE]
    ELSE [map |-> SetAliases(MapSet(m, KeyName(key), value), AliasSeq(key), value),
          nameSet |-> SetAdd(ns, KeyName(key)), threw |-> FALSE]

\* value = typeof value === 'undefined' ? key : value
StoredValueAsIs(key, value) == value
StoredValueName(key, value) ==
    IF value.type = "undefined" THEN Str(KeyName(key)) ELSE value
StoredValue(key, value) == IF value.type = "undefined" THEN key ELSE value

\* has(nameOrAlias) and get(nameOrAlias): the result, or the throw.
HasCall(m, arg) ==
    IF PreconString(arg)
    THEN [threw |-> FALSE, ret |-> Bool(MapHas(m, arg.v))]
    ELSE [threw |-> TRUE, ret |-> Undefined]

GetCall(m, arg) ==
    IF PreconString(arg)
    THEN [threw |-> FALSE, ret |-> MapGet(m, arg.v)]
    ELSE [threw |-> TRUE, ret |-> Undefined]

\* delete(key): the container after the call, the result, whether it threw.
DeleteCallByNameSet(m, ns, key) ==
    IF ~KeyChecksPass(key)
    THEN [map |-> m, nameSet |-> ns, threw |-> TRUE, ret |-> Undefined]
    ELSE [map |-> DeleteAliases(MapDelete(m, KeyName(key)), AliasSeq(key)),
          nameSet |-> SetDelete(ns, KeyName(key)),
          threw |-> FALSE,
          ret |-> Bool(SetHas(ns, KeyName(key)))]

DeleteCallKeepsName(m, ns, key) ==
    IF ~KeyChecksPass(key)
    THEN [map |-> m, nameSet |-> ns, threw |-> TRUE, ret |-> Undefined]
    ELSE [map |-> DeleteAliases(MapDelete(m, KeyName(key)), AliasSeq(key)),
          nameSet |-> ns,
          threw |-> FALSE,
          ret |-> Bool(MapHas(m, KeyName(key)))]

DeleteCallKeepAliases(m, ns, key) ==
    IF ~KeyChecksPass(key)
    THEN [map |-> m, nameSet |-> ns, threw |-> TRUE, ret |-> Undefined]
    ELSE [map |-> MapDelete(m, KeyName(key)),
          nameSet |-> SetDelete(ns, KeyName(key)),
          threw |-> FALSE,
          ret |-> Bool(MapHas(m, KeyName(key)))]

DeleteCallCascade(m, ns, key) ==
    IF ~KeyChecksPass(key)
    THEN [map |-> m, nameSet |-> ns, threw |-> TRUE, ret |-> Undefined]
    ELSE [map |-> DeleteAliases(MapDelete(m, KeyName(key)), AliasSeq(key)),
          nameSet |-> SelectSeq(ns, LAMBDA y : y \notin KeyNames(key)),
          threw |-> FALSE,
          ret |-> Bool(MapHas(m, KeyName(key)))]

DeleteCall(m, ns, key) ==
    IF ~KeyChecksPass(key)
    THEN [map |-> m, nameSet |-> ns, threw |-> TRUE, ret |-> Undefined]
    ELSE [map |-> DeleteAliases(MapDelete(m, KeyName(key)), AliasSeq(key)),
          nameSet |-> SetDelete(ns, KeyName(key)),
          threw |-> FALSE,
          ret |-> Bool(MapHas(m, KeyName(key)))]

\* clear(): both structures emptied.
ClearCallNamesOnly(m, ns) == [map |-> m, nameSet |-> <<>>]
ClearCall(m, ns) == [map |-> EmptyMap, nameSet |-> <<>>]

\* keys(): the names the backing Set's iterator yields.
KeysOf(ns) == ns
\* values(): each pull resolves the next name through the lookup.
ValuesOfReversed(m, ns) == [i \in 1..Len(ns) |-> MapGet(m, ns[Len(ns) + 1 - i])]
ValuesOf(m, ns) == [i \in 1..Len(ns) |-> MapGet(m, ns[i])]
\* [Symbol.iterator](): [name, value] pairs.
EntriesOf(m, ns) == [i \in 1..Len(ns) |-> <<ns[i], MapGet(m, ns[i])>>]
\* The container itself, as forEach hands it to iteratorFn.
This == "this"
\* forEach: the argument lists iteratorFn receives, (value, i, container).
ForEachCallsOneBased(m, ns) == [i \in 1..Len(ns) |-> <<MapGet(m, ns[i]), i, This>>]
ForEachCalls(m, ns) == [i \in 1..Len(ns) |-> <<MapGet(m, ns[i]), i - 1, This>>]

(* ------------------------------ actions -------------------------------- *)
Has(arg) ==
    /\ last' = Call("has", arg, Undefined,
                    HasCall(_map, arg).threw, HasCall(_map, arg).ret, <<>>)
    /\ UNCHANGED <<_map, _nameSet, hLastSet, hLive, hRank, hRemovedBy, hFollowers, hClobbered>>

Get(arg) ==
    /\ last' = Call("get", arg, Undefined,
                    GetCall(_map, arg).threw, GetCall(_map, arg).ret, <<>>)
    /\ UNCHANGED <<_map, _nameSet, hLastSet, hLive, hRank, hRemovedBy, hFollowers, hClobbered>>

Set(key, value) ==
    LET stored == StoredValue(key, value)
        r == SetCall(_map, _nameSet, key, stored)
        n == KeyName(key)
    IN  /\ _map' = r.map
        /\ _nameSet' = r.nameSet
        /\ last' = Call("set", key, value, r.threw, Undefined, <<>>)
        /\ IF KeyChecksPass(key)
           THEN /\ hLastSet' = [hLastSet EXCEPT ![n] = stored]
                /\ hLive' = hLive \cup {n}
                /\ hRank' = IF n \in hLive THEN hRank
                            ELSE [hRank EXCEPT ![n] = Cardinality(hLive) + 1]
                /\ hRemovedBy' = [hRemovedBy EXCEPT ![n] = "none"]
                /\ hFollowers' = [hFollowers EXCEPT ![n] = {}]
                /\ hClobbered' = [x \in Names |->
                                     IF x = n THEN FALSE
                                     ELSE IF x \in hLive /\ x \in Range(AliasSeq(key))
                                     THEN TRUE ELSE hClobbered[x]]
           ELSE UNCHANGED <<hLastSet, hLive, hRank, hRemovedBy, hFollowers, hClobbered>>

Delete(key) ==
    LET r == DeleteCall(_map, _nameSet, key)
        n == KeyName(key)
    IN  /\ _map' = r.map
        /\ _nameSet' = r.nameSet
        /\ last' = Call("delete", key, Undefined, r.threw, r.ret, <<>>)
        /\ IF KeyChecksPass(key)
           THEN /\ hLive' = hLive \ {n}
                /\ hLastSet' = [hLastSet EXCEPT ![n] = Undefined]
                /\ hRank' = [x \in Names |->
                                IF x = n THEN 0
                                ELSE IF hRank[n] > 0 /\ hRank[x] > hRank[n]
                                THEN hRank[x] - 1 ELSE hRank[x]]
                /\ hRemovedBy' = IF n \in hLive
                                 THEN [hRemovedBy EXCEPT ![n] = "delete"]
                                 ELSE hRemovedBy
                /\ hFollowers' = IF n \in hLive
                                 THEN [hFollowers EXCEPT
                                         ![n] = {x \in hLive : hRank[x] > hRank[n]}]
                                 ELSE hFollowers
                /\ hClobbered' = [x \in Names |->
                                     IF x = n THEN FALSE
                                     ELSE IF x \in hLive /\ x \in Range(AliasSeq(key))
                                     THEN TRUE ELSE hClobbered[x]]
           ELSE UNCHANGED <<hLastSet, hLive, hRank, hRemovedBy, hFollowers, hClobbered>>

Clear ==
    LET r == ClearCall(_map, _nameSet)
    IN  /\ _map' = r.map
        /\ _nameSet' = r.nameSet
        /\ last' = Call("clear", Undefined, Undefined, FALSE, Undefined, <<>>)
        /\ hLive' = {}
        /\ hLastSet' = [n \in Names |-> Undefined]
        /\ hRank' = [n \in Names |-> 0]
        /\ hRemovedBy' = [n \in Names |-> IF n \in hLive THEN "clear" ELSE hRemovedBy[n]]
        /\ hFollowers' = [n \in Names |->
                            IF n \in hLive THEN {x \in hLive : hRank[x] > hRank[n]}
                            ELSE hFollowers[n]]
        /\ hClobbered' = [n \in Names |-> FALSE]

ForEach(fn) ==
    /\ last' = IF PreconFunct(fn)
               THEN Call("forEach", fn, Undefined, FALSE, Undefined,
                         ForEachCalls(_map, _nameSet))
               ELSE Call("forEach", fn, Undefined, TRUE, Undefined, <<>>)
    /\ UNCHANGED <<_map, _nameSet, hLastSet, hLive, hRank, hRemovedBy, hFollowers, hClobbered>>

Keys ==
    /\ last' = Call("keys", Undefined, Undefined, FALSE, Undefined, KeysOf(_nameSet))
    /\ UNCHANGED <<_map, _nameSet, hLastSet, hLive, hRank, hRemovedBy, hFollowers, hClobbered>>

Values ==
    /\ last' = Call("values", Undefined, Undefined, FALSE, Undefined,
                    ValuesOf(_map, _nameSet))
    /\ UNCHANGED <<_map, _nameSet, hLastSet, hLive, hRank, hRemovedBy, hFollowers, hClobbered>>

Iterate ==
    /\ last' = Call("iterate", Undefined, Undefined, FALSE, Undefined,
                    EntriesOf(_map, _nameSet))
    /\ UNCHANGED <<_map, _nameSet, hLastSet, hLive, hRank, hRemovedBy, hFollowers, hClobbered>>

\* The public methods, each call drained to completion; the history of alias
\* lists and the stepwise iterator are left to the specifications below.
Next ==
    \/ \E arg \in NameArgs : Has(arg) /\ UNCHANGED <<hAlias, hEntry, hBefore, iter>>
    \/ \E arg \in NameArgs : Get(arg) /\ UNCHANGED <<hAlias, hEntry, hBefore, iter>>
    \/ \E key \in KeyArgs, value \in ValueArgs :
          Set(key, value) /\ UNCHANGED <<hAlias, hEntry, hBefore, iter>>
    \/ \E key \in KeyArgs : Delete(key) /\ UNCHANGED <<hAlias, hEntry, hBefore, iter>>
    \/ Clear /\ UNCHANGED <<hAlias, hEntry, hBefore, iter>>
    \/ \E fn \in FnArgs : ForEach(fn) /\ UNCHANGED <<hAlias, hEntry, hBefore, iter>>
    \/ Keys /\ UNCHANGED <<hAlias, hEntry, hBefore, iter>>
    \/ Values /\ UNCHANGED <<hAlias, hEntry, hBefore, iter>>
    \/ Iterate /\ UNCHANGED <<hAlias, hEntry, hBefore, iter>>

Spec == Init /\ [][Next]_vars

(* ------------- the same calls, with the history of alias lists ---------- *)
\* hAlias after set(key, value): an alias of key (other than key.name) is
\* listed afresh; a name key's earlier set listed and this one leaves out is
\* stale; any other name this call writes is written.
AliasAfterSet(key, stored) ==
    LET n == KeyName(key)
    IN  [s \in Names |->
           IF s # n /\ s \in Range(AliasSeq(key))
           THEN [owner |-> n, val |-> stored, stale |-> FALSE, written |-> FALSE]
           ELSE IF hAlias[s].owner = n /\ n \in hLive
           THEN [hAlias[s] EXCEPT !.stale = TRUE]
           ELSE IF s = n /\ hAlias[s].owner # ""
           THEN [hAlias[s] EXCEPT !.written = TRUE]
           ELSE hAlias[s]]

\* hAlias after delete(key): the names it lists are forgotten, and so are the
\* aliases of key.name that are not stale.
AliasAfterDelete(key) ==
    [s \in Names |->
       IF s \in KeyNames(key) THEN NoAlias
       ELSE IF hAlias[s].owner = KeyName(key) /\ ~hAlias[s].stale THEN NoAlias
       ELSE hAlias[s]]

StaleSet(key, value) ==
    /\ Set(key, value)
    /\ hAlias' = IF KeyChecksPass(key)
                 THEN AliasAfterSet(key, StoredValue(key, value)) ELSE hAlias
    /\ UNCHANGED <<hEntry, hBefore, iter>>

StaleDelete(key) ==
    /\ Delete(key)
    /\ hAlias' = IF KeyChecksPass(key) THEN AliasAfterDelete(key) ELSE hAlias
    /\ UNCHANGED <<hEntry, hBefore, iter>>

StaleClear ==
    /\ Clear
    /\ hAlias' = [s \in Names |-> NoAlias]
    /\ UNCHANGED <<hEntry, hBefore, iter>>

NextStale ==
    \/ \E key \in KeyArgs, value \in DefinedValues : StaleSet(key, value)
    \/ \E key \in KeyArgs : StaleDelete(key)
    \/ StaleClear

SpecStale == Init /\ [][NextStale]_vars

(* ------------- values(), pulled one element at a time ------------------- *)
\* iter is the iterator values() returned: pos is how many names of _nameSet
\* the backing Set iterator has passed, done that it has reported the end.
\* snap (the lookup when values() was called) and pulled (the names yielded
\* and still stored) are history.
DoneIter == [open |-> TRUE, pos |-> 0, done |-> TRUE, snap |-> EmptyMap, pulled |-> {}]

\* next(): the value a pull yields for the name the Set iterator is at.
PullValueSnapshot(m, ns, it) == MapGet(it.snap, ns[it.pos + 1])
PullValue(m, ns, it) == MapGet(m, ns[it.pos + 1])

ValuesOpen ==
    /\ iter' = [open |-> TRUE, pos |-> 0, done |-> FALSE, snap |-> _map, pulled |-> {}]
    /\ last' = Call("values", Undefined, Undefined, FALSE, Undefined, <<>>)
    /\ UNCHANGED <<_map, _nameSet, hLastSet, hLive, hRank, hRemovedBy, hFollowers,
                   hClobbered, hAlias, hEntry, hBefore>>

ValuesPull ==
    /\ iter.open
    /\ IF iter.done \/ iter.pos >= Len(_nameSet)
       THEN /\ iter' = DoneIter
            /\ last' = Call("next", Undefined, Undefined, FALSE, Undefined, <<>>)
       ELSE /\ iter' = [iter EXCEPT !.pos = iter.pos + 1,
                                    !.pulled = iter.pulled \cup {_nameSet[iter.pos + 1]}]
            /\ last' = Call("next", Str(_nameSet[iter.pos + 1]), Undefined, FALSE,
                            PullValue(_map, _nameSet, iter), <<>>)
    /\ UNCHANGED <<_map, _nameSet, hLastSet, hLive, hRank, hRemovedBy, hFollowers,
                   hClobbered, hAlias, hEntry, hBefore>>

\* set appends to the backing Set or leaves it alone: the iterator stays put.
LiveSet(key, value) ==
    /\ Set(key, value)
    /\ UNCHANGED <<hAlias, hEntry, hBefore, iter>>

\* delete of a name the iterator has passed moves the names after it up.
LiveDelete(key) ==
    /\ Delete(key)
    /\ iter' = IF KeyChecksPass(key) /\ iter.open /\ ~iter.done
                  /\ \E i \in 1..iter.pos : _nameSet[i] = KeyName(key)
               THEN [iter EXCEPT !.pos = iter.pos - 1,
                                 !.pulled = iter.pulled \ {KeyName(key)}]
               ELSE iter
    /\ UNCHANGED <<hAlias, hEntry, hBefore>>

\* clear empties the backing Set: a live iterator has nothing behind it.
LiveClear ==
    /\ Clear
    /\ iter' = IF iter.open /\ ~iter.done
               THEN [iter EXCEPT !.pos = 0, !.pulled = {}] ELSE iter
    /\ UNCHANGED <<hAlias, hEntry, hBefore>>

NextLive ==
    \/ \E key \in KeyArgs, value \in DefinedValues : LiveSet(key, value)
    \/ \E key \in KeyArgs : LiveDelete(key)
    \/ LiveClear
    \/ ValuesOpen
    \/ ValuesPull

SpecLive == Init /\ [][NextLive]_vars

(* ------------- the calls of a caller who keeps the key contract --------- *)
\* hEntry[p] is the aliasArr of the set call that stored primary name p.
EntryNames(p) == {p} \cup Range(hEntry[p])
UsedNames == UNION {EntryNames(p) : p \in hLive}

\* set(key, value) by a caller who gives a stored name the aliasArr it was
\* stored with, and a new entry only names no stored entry uses.
DisciplinedSet(key, value) ==
    /\ KeyChecksPass(key) =>
          IF KeyName(key) \in hLive
          THEN AliasSeq(key) = hEntry[KeyName(key)]
          ELSE KeyNames(key) \cap UsedNames = {}
    /\ Set(key, value)
    /\ hEntry' = IF KeyChecksPass(key)
                 THEN [hEntry EXCEPT ![KeyName(key)] = AliasSeq(key)] ELSE hEntry
    /\ UNCHANGED <<hAlias, hBefore, iter>>

\* delete(key) by a caller who passes the name and aliasArr a stored entry was
\* stored with, or names no stored entry uses.
DisciplinedDelete(key) ==
    /\ KeyChecksPass(key) =>
          \/ KeyName(key) \in hLive /\ AliasSeq(key) = hEntry[KeyName(key)]
          \/ KeyNames(key) \cap UsedNames = {}
    /\ Delete(key)
    /\ hEntry' = IF KeyChecksPass(key)
                 THEN [hEntry EXCEPT ![KeyName(key)] = <<>>] ELSE hEntry
    /\ UNCHANGED <<hAlias, hBefore, iter>>

DisciplinedClear ==
    /\ Clear
    /\ hEntry' = [n \in Names |-> <<>>]
    /\ UNCHANGED <<hAlias, hBefore, iter>>

NextDiscipline ==
    \/ \E key \in KeyArgs, value \in ValueArgs : DisciplinedSet(key, value)
    \/ \E key \in KeyArgs : DisciplinedDelete(key)
    \/ DisciplinedClear
    \/ \E arg \in NameArgs : Has(arg) /\ UNCHANGED <<hAlias, hEntry, hBefore, iter>>
    \/ \E arg \in NameArgs : Get(arg) /\ UNCHANGED <<hAlias, hEntry, hBefore, iter>>

SpecDiscipline == Init /\ [][NextDiscipline]_vars

(* ------------- set(key, v) followed by delete(key) ---------------------- *)
\* hBefore holds the fields as they were before a set(key, v) that found none
\* of key's names in the lookup: phase "set" right after that call, "deleted"
\* right after the delete(key) that follows it, "none" otherwise.
RoundTripSet(key, value) ==
    /\ Set(key, value)
    /\ hBefore' = IF KeyChecksPass(key) /\ \A s \in KeyNames(key) : ~MapHas(_map, s)
                  THEN [phase |-> "set", map |-> _map, nameSet |-> _nameSet]
                  ELSE NoBefore
    /\ UNCHANGED <<hAlias, hEntry, iter>>

RoundTripDelete(key) ==
    /\ Delete(key)
    /\ hBefore' = IF hBefore.phase = "set" /\ key = last.arg
                  THEN [hBefore EXCEPT !.phase = "deleted"]
                  ELSE NoBefore
    /\ UNCHANGED <<hAlias, hEntry, iter>>

RoundTripClear ==
    /\ Clear
    /\ hBefore' = NoBefore
    /\ UNCHANGED <<hAlias, hEntry, iter>>

NextRoundTrip ==
    \/ \E key \in KeyArgs, value \in ValueArgs : RoundTripSet(key, value)
    \/ \E key \in KeyArgs : RoundTripDelete(key)
    \/ RoundTripClear

SpecRoundTrip == Init /\ [][NextRoundTrip]_vars

(* --------------------- what a caller observes -------------------------- *)
has(s) == HasCall(_map, Str(s)).ret = Bool(TRUE)
get(s) == GetCall(_map, Str(s)).ret
PrimaryNames == Range(_nameSet)
Pos(ns, x) == CHOOSE i \in 1..Len(ns) : ns[i] = x
SetDone(c) == c.op = "set" /\ ~c.threw
DeleteDone(c) == c.op = "delete" /\ ~c.threw

(* ------------------------------ claims --------------------------------- *)

\* C1 (as stated): in every reachable state every primary name p of the
\* ordered set is present in the lookup and get(p) is the value stored by the
\* latest set call whose key.name was p.
C1_PrimaryNamesResolve ==
    \A p \in PrimaryNames : has(p) /\ get(p) = hLastSet[p]

\* C1 (amended): the same for every primary name p that no set or delete call
\* with another key.name has listed in its aliasArr since the latest set call
\* whose key.name was p.
C1_UnclobberedNamesResolve ==
    \A p \in PrimaryNames : ~hClobbered[p] => (has(p) /\ get(p) = hLastSet[p])

\* "b" was listed as an alias of the key named "a": "a" resolves to its latest
\* value, "b" is still a primary name and no longer does.
C1_Witness ==
    /\ SetDone(last)
    /\ KeyName(last.arg) = "a"
    /\ PrimaryNames = {"a", "b"}
    /\ ~hClobbered["a"]
    /\ hClobbered["b"]
    /\ get("a") = hLastSet["a"]
    /\ get("b") # hLastSet["b"]

\* C2: size is the number of distinct primary names set and not removed
\* since by a delete with that key.name or by clear; aliases never count.
C2_SizeCountsPrimaryNames ==
    /\ Size = Cardinality(hLive)
    /\ PrimaryNames = hLive

C2_Witness ==
    /\ SetDone(last)
    /\ Len(AliasSeq(last.arg)) > 0
    /\ KeyName(last.arg) \notin Range(AliasSeq(last.arg))
    /\ Size = 1
    /\ Cardinality(DOMAIN _map) = 2

\* C3: right after set(key, v) with a valid key and a defined v, get returns
\* v and has is true for key.name and for every alias in key.aliasArr.
C3_SetThenGet ==
    (SetDone(last) /\ last.value.type # "undefined") =>
        \A s \in KeyNames(last.arg) : has(s) /\ get(s) = last.value

C3_Witness ==
    /\ SetDone(last)
    /\ last.value.type # "undefined"
    /\ \E s \in Range(AliasSeq(last.arg)) : s # KeyName(last.arg) /\ get(s) = last.value

\* C4 (as stated): delete(key) returns true iff key.name was in the ordered
\* primary-name set immediately before the call.
C4_DeleteReturnsWasPrimary ==
    [][DeleteDone(last') =>
         last'.ret = Bool(SetHas(_nameSet, KeyName(last'.arg)))]_vars

\* C4 (amended): delete(key) returns true iff key.name was present in the
\* flat lookup (has(key.name) was true) immediately before the call.
C4_DeleteReturnsWasInLookup ==
    [][DeleteDone(last') => last'.ret = Bool(has(KeyName(last'.arg)))]_vars

\* delete returned true for a name that has never been a stored primary name.
C4_Witness ==
    /\ DeleteDone(last)
    /\ last.ret = Bool(TRUE)
    /\ hRemovedBy[KeyName(last.arg)] = "none"

\* C5: right after delete(key) with a valid key, has is false for key.name
\* and for every alias in key.aliasArr, and key.name is not among the
\* primary names that keys() produces and size counts.
C5_DeleteRemoves ==
    DeleteDone(last) =>
        /\ \A s \in KeyNames(last.arg) : ~has(s)
        /\ KeyName(last.arg) \notin Range(KeysOf(_nameSet))
        /\ Size = Cardinality(PrimaryNames \ {KeyName(last.arg)})

C5_Witness ==
    /\ DeleteDone(last)
    /\ last.ret = Bool(TRUE)
    /\ \E s \in Range(AliasSeq(last.arg)) : s # KeyName(last.arg)
    /\ Size = 1

\* C6: a call with a malformed argument throws and leaves the lookup and the
\* ordered primary-name set as they were; no call that throws has mutated.
C6_MalformedRejected ==
    [][/\ (last'.op \in {"has", "get"} /\ last'.arg.type # "string") => last'.threw
       /\ (last'.op \in {"set", "delete"} /\ last'.arg \in BadKeys) => last'.threw
       /\ (last'.op = "forEach" /\ last'.arg.type # "function") => last'.threw
       /\ last'.threw => (_map' = _map /\ _nameSet' = _nameSet)]_vars

C6_Witness ==
    /\ last.op = "set"
    /\ last.threw
    /\ PreconString(last.arg.obj.name)
    /\ last.arg.obj.isArray
    /\ ~has(KeyName(last.arg))
    /\ Size = 1

\* In one step, the names stored before and after keep their relative order.
OrderKept ==
    \A p, q \in Range(_nameSet) \cap Range(_nameSet') :
        Pos(_nameSet, p) < Pos(_nameSet, q) => Pos(_nameSet', p) < Pos(_nameSet', q)

\* A set call puts name n behind a name that followed n when n was last stored.
MovedToEnd(n) ==
    /\ ~SetHas(_nameSet, n)
    /\ hFollowers[n] \cap Range(_nameSet) # {}

\* C7 (as stated): set with a key.name already stored leaves size and the
\* sequence of keys() unchanged, the name occurring once; only a delete of
\* that name followed by a new set moves it to the end.
C7_OnlyDeleteMoves ==
    [][/\ OrderKept
       /\ SetDone(last') =>
            LET n == KeyName(last'.arg)
            IN  /\ SetHas(_nameSet, n) =>
                     (Len(_nameSet') = Size /\ KeysOf(_nameSet') = KeysOf(_nameSet))
                /\ Cardinality({i \in 1..Len(_nameSet') : _nameSet'[i] = n}) = 1
                /\ MovedToEnd(n) => hRemovedBy[n] = "delete"]_vars

\* C7 (amended): as stated, except that the name is moved to the end by a new
\* set after any removal of it: a delete with that key.name, or clear.
C7_OnlyRemovalMoves ==
    [][/\ OrderKept
       /\ SetDone(last') =>
            LET n == KeyName(last'.arg)
            IN  /\ SetHas(_nameSet, n) =>
                     (Len(_nameSet') = Size /\ KeysOf(_nameSet') = KeysOf(_nameSet))
                /\ Cardinality({i \in 1..Len(_nameSet') : _nameSet'[i] = n}) = 1
                /\ MovedToEnd(n) => hRemovedBy[n] \in {"delete", "clear"}]_vars

\* "a" was set again while stored ahead of "b", and is still ahead of it.
C7_Witness ==
    /\ SetDone(last)
    /\ KeyName(last.arg) = "a"
    /\ hRank["a"] = 1
    /\ hRank["b"] = 2
    /\ _nameSet = <<"a", "b">>

\* C8: keys(), default iteration, forEach and values() go through the same
\* sequence of names, the stored primary names in the order of the insertions
\* that added them, and yield get(name) for the i-th name.
C8_IterationOrdersAgree ==
    LET ks == KeysOf(_nameSet)
        vs == ValuesOf(_map, _nameSet)
        es == EntriesOf(_map, _nameSet)
        fs == ForEachCalls(_map, _nameSet)
    IN  /\ Len(vs) = Len(ks) /\ Len(es) = Len(ks) /\ Len(fs) = Len(ks)
        /\ Range(ks) = hLive
        /\ \A i \in 1..Len(ks) :
              /\ hRank[ks[i]] = i
              /\ es[i][1] = ks[i]
              /\ es[i][2] = get(ks[i])
              /\ vs[i] = get(ks[i])
              /\ fs[i] = <<get(ks[i]), i - 1, This>>
        /\ last.op = "keys" => last.out = ks
        /\ last.op = "values" => last.out = vs
        /\ last.op = "iterate" => last.out = es
        /\ (last.op = "forEach" /\ ~last.threw) => last.out = fs

C8_Witness ==
    /\ last.op = "values"
    /\ _nameSet = <<"b", "a">>
    /\ Len(last.out) = 2
    /\ last.out[1] # last.out[2]

\* C9: right after clear(), size is 0, has is false for every string and
\* keys(), values(), forEach and default iteration produce nothing.
C9_ClearEmpties ==
    last.op = "clear" =>
        /\ Size = 0
        /\ DOMAIN _map = {}
        /\ \A s \in Names : ~has(s)
        /\ KeysOf(_nameSet) = <<>>
        /\ ValuesOf(_map, _nameSet) = <<>>
        /\ EntriesOf(_map, _nameSet) = <<>>
        /\ ForEachCalls(_map, _nameSet) = <<>>

C9_Witness ==
    /\ last.op = "clear"
    /\ \E n \in Names : hRemovedBy[n] = "clear"

\* C10: set(key2, v2) makes every name of key2 map to v2, whatever entry it
\* belonged to; every other name keeps its association and every primary
\* name stored before stays in the ordered primary-name set.
C10_LastWriterWins ==
    [][SetDone(last') =>
         LET key2 == last'.arg
             v2 == StoredValue(key2, last'.value)
         IN  /\ \A s \in KeyNames(key2) : GetCall(_map', Str(s)).ret = v2
             /\ \A t \in Names \ KeyNames(key2) :
                   /\ HasCall(_map', Str(t)) = HasCall(_map, Str(t))
                   /\ GetCall(_map', Str(t)) = GetCall(_map, Str(t))
             /\ \A p \in Range(_nameSet) : SetHas(_nameSet', p)]_vars

\* key2 listed another entry's primary name p as an alias: get(p) is now
\* key2's value, and p is still a primary name.
C10_Witness ==
    /\ SetDone(last)
    /\ \E p \in PrimaryNames :
          /\ p # KeyName(last.arg)
          /\ p \in KeyNames(last.arg)
          /\ get(p) = StoredValue(last.arg, last.value)
          /\ get(p) # hLastSet[p]

\* C11: set(key) with the value omitted stores the key object itself: get
\* returns that key for key.name and for every alias in key.aliasArr.
C11_OmittedValueStoresKey ==
    (SetDone(last) /\ last.value.type = "undefined") =>
        \A s \in KeyNames(last.arg) : get(s) = last.arg

C11_Witness ==
    /\ SetDone(last)
    /\ last.value.type = "undefined"
    /\ \E s \in Range(AliasSeq(last.arg)) : s # KeyName(last.arg) /\ get(s) = last.arg

\* C12: forEach(iteratorFn) calls iteratorFn exactly size times, the i-th call
\* (i from 0) with (get(name_i), i, the container), name_i being the i-th
\* primary name in insertion order.
C12_ForEachArguments ==
    (last.op = "forEach" /\ ~last.threw) =>
        /\ Len(last.out) = Size
        /\ \A i \in 0..(Size - 1) :
              \E n \in hLive :
                 /\ hRank[n] = i + 1
                 /\ last.out[i + 1] = <<get(n), i, This>>

C12_Witness ==
    /\ last.op = "forEach"
    /\ ~last.threw
    /\ Len(last.out) = 2
    /\ last.out[1][1] # last.out[2][1]
    /\ _nameSet = <<"b", "a">>

C18_HasIffGetDefined ==
    /\ \A s \in Names : has(s) <=> (get(s).type # "undefined")
    /\ (last.op = "get" /\ ~last.threw) =>
          (has(last.arg.v) <=> (last.ret.type # "undefined"))

\* set was called without a value: the name is present and get is defined.
C18_Witness ==
    /\ SetDone(last)
    /\ last.value.type = "undefined"
    /\ has(KeyName(last.arg))
    /\ get(KeyName(last.arg)).type # "undefined"
    /\ \E s \in Names : ~has(s) /\ get(s).type = "undefined"

\* C13 (as stated): an alias listed by the earlier set of a stored primary
\* name and left out by a later set of that name stays in the lookup, mapped
\* to the value of the earlier set, until a delete lists it or clear is called.
C13_StaleAliasUntilDelete ==
    \A s \in Names :
        hAlias[s].stale => (has(s) /\ get(s) = hAlias[s].val)

\* C13 (amended): the same, until a set or a delete call lists it (as
\* key.name or in aliasArr) or clear is called.
C13_StaleAliasUntilListed ==
    \A s \in Names :
        (hAlias[s].stale /\ ~hAlias[s].written) =>
            (has(s) /\ get(s) = hAlias[s].val)

\* "a" was set again without its alias "b": "b" still maps to the earlier value.
C13_Witness ==
    /\ SetDone(last)
    /\ KeyName(last.arg) = "a"
    /\ AliasSeq(last.arg) = <<>>
    /\ hAlias["b"].owner = "a"
    /\ hAlias["b"].stale
    /\ ~hAlias["b"].written
    /\ has("b")
    /\ get("b") = hAlias["b"].val
    /\ get("b") # get("a")

\* The primary names values() has not yielded yet, in stored order.
Unpulled == SelectSeq(_nameSet, LAMBDA n : n \notin iter.pulled)

\* C15: values() is live: a pull of an iterator that has not reported the end
\* yields the value the lookup holds at that moment for the first primary
\* name not yet pulled, whatever the lookup held when values() was called.
C15_ValuesIsLive ==
    [][(last'.op = "next" /\ iter.open /\ ~iter.done /\ Unpulled # <<>>) =>
          /\ last'.arg = Str(Head(Unpulled))
          /\ last'.ret = get(Head(Unpulled))
          /\ ~iter'.done]_vars

\* A pull yielded a value that a set stored after values() was called.
C15_Witness ==
    /\ last.op = "next"
    /\ last.arg # Undefined
    /\ ~iter.done
    /\ MapHas(iter.snap, last.arg.v)
    /\ MapGet(iter.snap, last.arg.v) # last.ret
    /\ last.ret = get(last.arg.v)
    /\ last.ret = hLastSet[last.arg.v]

\* C16: when every name is used by at most one stored entry, a stored name is
\* only set again with the aliasArr it was stored with, and delete is called
\* with the name and aliasArr of the insertion, the strings has accepts are
\* exactly the primary names and aliases of the entries size counts, and each
\* maps to its own entry's value.
C16_DisciplinedLookupIsExact ==
    /\ PrimaryNames = hLive
    /\ Size = Cardinality(hLive)
    /\ {s \in Names : has(s)} = UsedNames
    /\ \A p \in hLive : \A s \in EntryNames(p) : get(s) = hLastSet[p]
    /\ (last.op = "has" /\ ~last.threw) =>
           (last.ret = Bool(last.arg.v \in UsedNames))

\* "a" is stored with alias "b" after an entry named "b" was deleted.
C16_Witness ==
    /\ SetDone(last)
    /\ hLive = {"a"}
    /\ hEntry["a"] = <<"b">>
    /\ hRemovedBy["b"] = "delete"
    /\ has("b")
    /\ get("b") = hLastSet["a"]
    /\ Size = 1

\* The fields are what they were before the set of the round trip.
Restored ==
    /\ _map = hBefore.map
    /\ _nameSet = hBefore.nameSet
    /\ Size = Len(hBefore.nameSet)

\* C17 (as stated): from a state where none of key's names is in the lookup,
\* set(key, v) followed by delete(key) returns true and restores the lookup,
\* the primary names in their order, and the size.
C17_RoundTrip ==
    hBefore.phase = "deleted" =>
        (last.op = "delete" /\ last.ret = Bool(TRUE) /\ Restored)

\* C17 (amended): the same, from a state where moreover key.name is not in the
\* ordered primary-name set.
C17_RoundTripFromAbsentName ==
    (hBefore.phase = "deleted" /\ KeyName(last.arg) \notin Range(hBefore.nameSet)) =>
        (last.op = "delete" /\ last.ret = Bool(TRUE) /\ Restored)

\* A round trip over a container that held another entry, which is back as it was.
C17_Witness ==
    /\ hBefore.phase = "deleted"
    /\ DeleteDone(last)
    /\ KeyName(last.arg) \notin Range(hBefore.nameSet)
    /\ hBefore.nameSet # <<>>
    /\ DOMAIN hBefore.map # {}
    /\ last.ret = Bool(TRUE)
    /\ Restored

====
